---- MODULE Spec2Model ----
(***************************************************************************)
(* Queen Mama LITE desktop shell (src/web_app/src-tauri/src): the window   *)
(* manager (window.rs), the global shortcut registrar (shortcuts.rs), the  *)
(* tray controller (tray.rs) and the bootstrap (lib.rs), as one state      *)
(* machine.  Every handler runs to completion on the main thread, so each  *)
(* handler is one action.  Every OS call a handler makes may fail; its     *)
(* outcome is an input of the action.                                      *)
(***************************************************************************)
EXTENDS Integers, Sequences, FiniteSets, TLC

VARIABLES
    platform,    \* target_os of the build: "macos", "windows" or "linux"
    windows,     \* labels of the windows that exist ("overlay", "main")
    screen,      \* <<width, height>> of the monitor, physical pixels
    deco,        \* outer size minus inner size of the overlay (decorations)
    phase,       \* "boot", "tray", "shortcuts", "running", "aborted", "exited"
    registered,  \* the registered chords: action id -> [mods, code]; <<>> before registration
    overlay,     \* [visible, x, y, w, h, aot] of the overlay window
    mainVisible, \* visibility of the main window
    focus,       \* the window holding input focus: "overlay", "main" or "none"
    exitCode,    \* the process exit code, -1 while the process runs
    last,        \* the last handling pass: [name, arg, ret]
    calls,       \* the OS calls of the last handling pass, in order, each with its outcome
    pre,         \* the window state when the last handling pass began
    prev         \* the pass before the last, when that was a toggle_overlay call that
                 \* returned Ok: [name, ret, was], was the visibility it began with

vars == <<platform, windows, screen, deco, phase, registered, overlay,
          mainVisible, focus, exitCode, last, calls, pre, prev>>

(***************************************************************************)
(* Bounds of the model.                                                    *)
(***************************************************************************)
NumScreens == 2
MaxDeco == 1

ScreenTable == << <<1920, 1080>>, <<320, 240>>, <<1366, 768>>, <<2560, 1440>> >>
ScreenSizes == { ScreenTable[i] : i \in 1..NumScreens }
Decorations == 0..MaxDeco

(***************************************************************************)
(* Program constants.                                                      *)
(***************************************************************************)
OVERLAY_COLLAPSED_WIDTH == 420
OVERLAY_COLLAPSED_HEIGHT == 100
OVERLAY_EXPANDED_WIDTH == 420
OVERLAY_EXPANDED_HEIGHT == 400
padding == 20
MenuBarOffset == 60
StartupPadding == 20
StartupY == 100
FeedbackUrl == "https://queenmama.featurebase.app"

Platforms == {"macos", "windows", "linux"}
OverlayPosition == {"TopLeft", "TopCenter", "TopRight",
                    "BottomLeft", "BottomCenter", "BottomRight"}
MenuIds == {"show_overlay", "hide_overlay", "start_session", "stop_session",
            "open_dashboard", "feedback", "quit"}

\* The static window configuration (tauri.conf.json) the windows are created from.
ConfigSize == <<800, 600>>
ConfigPos == <<0, 0>>

(***************************************************************************)
(* Results of the remote operations (Result<_, String>).                   *)
(***************************************************************************)
OkUnit == "Ok"
OkBool(b) == IF b THEN "Ok(true)" ELSE "Ok(false)"
ErrOverlayNotFound == "Err(Overlay window not found)"
ErrMainNotFound == "Err(Main window not found)"
ErrNoMonitor == "Err(No monitor found)"
ErrOs == "Err(os)"     \* e.to_string() of a failed OS call
NoResult == "-"        \* a callback: no return value

\* serde_json of the bool payload of overlay_expanded_changed
BoolPayload(b) == IF b THEN "true" ELSE "false"

\* a division that rounds toward minus infinity
FloorDiv(a, b) == a \div b

\* Rust's i32 division truncates toward zero
TruncDiv(a, b) == IF a >= 0 THEN a \div b ELSE -((-a) \div b)

(***************************************************************************)
(* The windowing toolkit.  m is the machine a handler runs on:             *)
(* [overlay, mainVisible, focus, exitCode, calls].  A call is logged with  *)
(* its outcome; a failed call changes nothing else.                        *)
(***************************************************************************)
Logged(m, win, call, arg, ok) ==
    [m EXCEPT !.calls = Append(@, [win |-> win, call |-> call, arg |-> arg, ok |-> ok])]

IsVisible(m, win) == IF win = "overlay" THEN m.overlay.visible ELSE m.mainVisible

os_is_visible(m, win, ok) == Logged(m, win, "is_visible", <<>>, ok)

os_hide(m, win, ok) ==
    LET l == Logged(m, win, "hide", <<>>, ok)
        f == IF m.focus = win THEN "none" ELSE m.focus
    IN  IF ~ok THEN l
        ELSE IF win = "overlay"
             THEN [l EXCEPT !.overlay.visible = FALSE, !.focus = f]
             ELSE [l EXCEPT !.mainVisible = FALSE, !.focus = f]

os_show(m, win, ok) ==
    LET l == Logged(m, win, "show", <<>>, ok)
    IN  IF ~ok THEN l
        ELSE IF win = "overlay"
             THEN [l EXCEPT !.overlay.visible = TRUE]
             ELSE [l EXCEPT !.mainVisible = TRUE]

\* input focus goes to a window that is on screen
os_set_focus(m, win, ok) ==
    LET l == Logged(m, win, "set_focus", <<>>, ok)
    IN  IF ok /\ IsVisible(m, win) THEN [l EXCEPT !.focus = win] ELSE l

os_set_size(m, w, h, ok) ==
    LET l == Logged(m, "overlay", "set_size", <<>>, ok)
    IN  IF ok THEN [l EXCEPT !.overlay.w = w, !.overlay.h = h] ELSE l

os_set_position(m, x, y, ok) ==
    LET l == Logged(m, "overlay", "set_position", <<>>, ok)
    IN  IF ok THEN [l EXCEPT !.overlay.x = x, !.overlay.y = y] ELSE l

os_set_always_on_top(m, b, ok) ==
    LET l == Logged(m, "overlay", "set_always_on_top", <<>>, ok)
    IN  IF ok THEN [l EXCEPT !.overlay.aot = b] ELSE l

\* mon is the answer: "some" (Ok(Some)), "none" (Ok(None)) or "err" (Err)
os_current_monitor(m, mon) == Logged(m, "overlay", "current_monitor", <<mon>>, mon # "err")

os_outer_size(m, ok) == Logged(m, "overlay", "outer_size", <<>>, ok)

\* the outer size the OS reports: the inner size plus the decorations
OuterSize(m, d) == <<m.overlay.w + d, m.overlay.h + d>>

emit(m, event, payload, ok) == Logged(m, "app", "emit", <<event, payload>>, ok)

open_that(m, url, ok) == Logged(m, "browser", "open", <<url>>, ok)

app_exit(m, code) == [Logged(m, "app", "exit", <<>>, TRUE) EXCEPT !.exitCode = code]

Result(m, ret) == [m |-> m, ret |-> ret]

(***************************************************************************)
(* window.rs: the remote operations.  has is the set of existing windows,  *)
(* o the outcomes of the OS calls the operation may make.                  *)
(***************************************************************************)
\* toggle_overlay returning the visibility it read
toggle_overlay_stale(m, has, o) ==
    IF "overlay" \in has
    THEN LET q == os_is_visible(m, "overlay", o.is_visible)
             is_visible == m.overlay.visible
         IN  IF ~o.is_visible THEN Result(q, ErrOs)
             ELSE IF is_visible
             THEN LET h == os_hide(q, "overlay", o.hide)
                  IN  IF ~o.hide THEN Result(h, ErrOs)
                      ELSE Result(h, OkBool(is_visible))
             ELSE LET s == os_show(q, "overlay", o.show)
                      f == os_set_focus(s, "overlay", o.set_focus)
                  IN  IF ~o.show THEN Result(s, ErrOs)
                      ELSE IF ~o.set_focus THEN Result(f, ErrOs)
                      ELSE Result(f, OkBool(~is_visible))
    ELSE Result(m, ErrOverlayNotFound)

toggle_overlay(m, has, o) ==
    IF "overlay" \in has
    THEN LET q == os_is_visible(m, "overlay", o.is_visible)
             is_visible == m.overlay.visible
         IN  IF ~o.is_visible THEN Result(q, ErrOs)
             ELSE IF is_visible
             THEN LET h == os_hide(q, "overlay", o.hide)
                  IN  IF ~o.hide THEN Result(h, ErrOs)
                      ELSE Result(h, OkBool(~is_visible))
             ELSE LET s == os_show(q, "overlay", o.show)
                      f == os_set_focus(s, "overlay", o.set_focus)
                  IN  IF ~o.show THEN Result(s, ErrOs)
                      ELSE IF ~o.set_focus THEN Result(f, ErrOs)
                      ELSE Result(f, OkBool(~is_visible))
    ELSE Result(m, ErrOverlayNotFound)

\* the two sizes with the collapsed height taken from the expanded one
ExpandedSize_tall(expanded) ==
    IF expanded
    THEN <<OVERLAY_EXPANDED_WIDTH, OVERLAY_EXPANDED_HEIGHT>>
    ELSE <<OVERLAY_COLLAPSED_WIDTH, OVERLAY_EXPANDED_HEIGHT>>

ExpandedSize(expanded) ==
    IF expanded
    THEN <<OVERLAY_EXPANDED_WIDTH, OVERLAY_EXPANDED_HEIGHT>>
    ELSE <<OVERLAY_COLLAPSED_WIDTH, OVERLAY_COLLAPSED_HEIGHT>>

\* set_overlay_expanded announcing the change before it looks the window up
set_overlay_expanded_eager(m, has, expanded, o) ==
    LET e == emit(m, "overlay_expanded_changed", BoolPayload(expanded), o.emit)
    IN  IF "overlay" \in has
        THEN LET size == ExpandedSize(expanded)
                 s == os_set_size(e, size[1], size[2], o.set_size)
             IN  IF ~o.emit THEN Result(e, ErrOs)
                 ELSE IF ~o.set_size THEN Result(s, ErrOs)
                 ELSE Result(s, OkUnit)
        ELSE Result(e, ErrOverlayNotFound)

set_overlay_expanded(m, has, expanded, o) ==
    IF "overlay" \in has
    THEN LET size == ExpandedSize(expanded)
             s == os_set_size(m, size[1], size[2], o.set_size)
             e == emit(s, "overlay_expanded_changed", BoolPayload(expanded), o.emit)
         IN  IF ~o.set_size THEN Result(s, ErrOs)
             ELSE IF ~o.emit THEN Result(e, ErrOs)
             ELSE Result(e, OkUnit)
    ELSE Result(m, ErrOverlayNotFound)

\* the match of move_overlay: screen_size and window_size are <<width, height>>
AnchorPosition(position, screen_size, window_size) ==
    CASE position = "TopLeft" -> <<padding, padding + MenuBarOffset>>
      [] position = "TopCenter" ->
            <<TruncDiv(screen_size[1] - window_size[1], 2), padding + MenuBarOffset>>
      [] position = "TopRight" ->
            <<screen_size[1] - window_size[1] - padding, padding + MenuBarOffset>>
      [] position = "BottomLeft" ->
            <<padding, screen_size[2] - window_size[2] - padding>>
      [] position = "BottomCenter" ->
            <<TruncDiv(screen_size[1] - window_size[1], 2),
              screen_size[2] - window_size[2] - padding>>
      [] position = "BottomRight" ->
            <<screen_size[1] - window_size[1] - padding,
              screen_size[2] - window_size[2] - padding>>

\* mon is "some", "none" or "err": the answer of current_monitor()
move_overlay(m, has, scr, d, position, mon, o) ==
    IF "overlay" \in has
    THEN LET c == os_current_monitor(m, mon)
             w == os_outer_size(c, o.outer_size)
             xy == AnchorPosition(position, scr, OuterSize(m, d))
             p == os_set_position(w, xy[1], xy[2], o.set_position)
         IN  IF mon = "err" THEN Result(c, ErrOs)
             ELSE IF mon = "none" THEN Result(c, ErrNoMonitor)
             ELSE IF ~o.outer_size THEN Result(w, ErrOs)
             ELSE IF ~o.set_position THEN Result(p, ErrOs)
             ELSE Result(p, OkUnit)
    ELSE Result(m, ErrOverlayNotFound)

show_main_window(m, has, o) ==
    IF "main" \in has
    THEN LET s == os_show(m, "main", o.show)
             f == os_set_focus(s, "main", o.set_focus)
         IN  IF ~o.show THEN Result(s, ErrOs)
             ELSE IF ~o.set_focus THEN Result(f, ErrOs)
             ELSE Result(f, OkUnit)
    ELSE Result(m, ErrMainNotFound)

\* the startup position taken from the TopRight anchor
StartupPosition_anchor(scr) ==
    <<scr[1] - OVERLAY_COLLAPSED_WIDTH - StartupPadding, padding + MenuBarOffset>>

\* the startup default position: top-right, y fixed
StartupPosition(scr) == <<scr[1] - OVERLAY_COLLAPSED_WIDTH - StartupPadding, StartupY>>

setup_windows(m, has, scr, mon, o) ==
    IF "overlay" \in has
    THEN LET s == os_set_size(m, OVERLAY_COLLAPSED_WIDTH, OVERLAY_COLLAPSED_HEIGHT, o.set_size)
             c == os_current_monitor(s, mon)
             xy == StartupPosition(scr)
             p == IF mon = "some"
                  THEN os_set_position(c, xy[1], xy[2], o.set_position)
                  ELSE c
         IN  Result(os_set_always_on_top(p, TRUE, o.set_always_on_top), OkUnit)
    ELSE Result(m, OkUnit)

(***************************************************************************)
(* shortcuts.rs                                                            *)
(***************************************************************************)
\* the four Shortcut::new(...) of setup_shortcuts, on every platform
ShortcutDefs ==
    << [action |-> "toggle_overlay", mods |-> {"META"}, code |-> "Backslash"],
       [action |-> "trigger_assist", mods |-> {"META"}, code |-> "Enter"],
       [action |-> "toggle_session", mods |-> {"META", "SHIFT"}, code |-> "KeyS"],
       [action |-> "clear_context", mods |-> {"META"}, code |-> "KeyR"] >>

Chord(s) == [mods |-> s.mods, code |-> s.code]

\* the match on shortcut.id(): the first definition with the chord's id, "" when none
ActionOf(chord) ==
    IF \E i \in 1..Len(ShortcutDefs) : Chord(ShortcutDefs[i]) = chord
    THEN LET i == CHOOSE j \in 1..Len(ShortcutDefs) :
                     /\ Chord(ShortcutDefs[j]) = chord
                     /\ \A k \in 1..(j - 1) : Chord(ShortcutDefs[k]) # chord
         IN  ShortcutDefs[i].action
    ELSE ""

\* the direct toggle giving up when the visibility query fails
hotkey_toggle_strict(m, has, o) ==
    IF "overlay" \in has
    THEN LET q == os_is_visible(m, "overlay", o.is_visible)
         IN  IF ~o.is_visible THEN q
             ELSE IF m.overlay.visible
             THEN os_hide(q, "overlay", o.hide)
             ELSE os_set_focus(os_show(q, "overlay", o.show), "overlay", o.set_focus)
    ELSE m

\* the direct toggle of the hotkey handler: a failed query reads as hidden
hotkey_toggle(m, has, o) ==
    IF "overlay" \in has
    THEN LET q == os_is_visible(m, "overlay", o.is_visible)
             is_visible == IF o.is_visible THEN m.overlay.visible ELSE FALSE
         IN  IF is_visible
             THEN os_hide(q, "overlay", o.hide)
             ELSE os_set_focus(os_show(q, "overlay", o.show), "overlay", o.set_focus)
    ELSE m

\* the closure toggling before it emits
on_shortcut_late(m, has, chord, state, o) ==
    IF state = "Pressed"
    THEN LET action == ActionOf(chord)
         IN  IF action = "" THEN m
             ELSE IF action = "toggle_overlay"
             THEN emit(hotkey_toggle(m, has, o), "shortcut", action, o.emit)
             ELSE emit(m, "shortcut", action, o.emit)
    ELSE m

\* the closure given to on_shortcuts
on_shortcut(m, has, chord, state, o) ==
    IF state = "Pressed"
    THEN LET action == ActionOf(chord)
             e == emit(m, "shortcut", action, o.emit)
         IN  IF action = "" THEN m
             ELSE IF action = "toggle_overlay" THEN hotkey_toggle(e, has, o)
             ELSE e
    ELSE m

\* the key labels: "{cmd}" is U+2318, "{return}" U+21A9, "{shift}" U+21E7
get_shortcuts(os) ==
    << [id |-> "toggle_overlay",
        keys |-> IF os = "macos" THEN "{cmd}\\" ELSE "Ctrl+\\",
        description |-> "Toggle overlay visibility"],
       [id |-> "trigger_assist",
        keys |-> IF os = "macos" THEN "{cmd}{return}" ELSE "Ctrl+Enter",
        description |-> "Trigger AI assist"],
       [id |-> "toggle_session",
        keys |-> IF os = "macos" THEN "{cmd}{shift}S" ELSE "Ctrl+Shift+S",
        description |-> "Start/Stop session"],
       [id |-> "clear_context",
        keys |-> IF os = "macos" THEN "{cmd}R" ELSE "Ctrl+R",
        description |-> "Clear context"] >>

(***************************************************************************)
(* tray.rs                                                                 *)
(***************************************************************************)
\* the menu handler with stop_session forwarding the payload of start_session
on_menu_event_pasted(m, has, id, o) ==
    CASE id = "show_overlay" ->
            IF "overlay" \in has
            THEN os_set_focus(os_show(m, "overlay", o.show), "overlay", o.set_focus)
            ELSE m
      [] id = "hide_overlay" ->
            IF "overlay" \in has THEN os_hide(m, "overlay", o.hide) ELSE m
      [] id = "start_session" -> emit(m, "tray_action", "start_session", o.emit)
      [] id = "stop_session" -> emit(m, "tray_action", "start_session", o.emit)
      [] id = "open_dashboard" ->
            IF "main" \in has
            THEN os_set_focus(os_show(m, "main", o.show), "main", o.set_focus)
            ELSE m
      [] id = "feedback" ->
            open_that(emit(m, "tray_action", "feedback", o.emit), FeedbackUrl, o.open)
      [] id = "quit" -> app_exit(m, 0)
      [] OTHER -> m

on_menu_event(m, has, id, o) ==
    CASE id = "show_overlay" ->
            IF "overlay" \in has
            THEN os_set_focus(os_show(m, "overlay", o.show), "overlay", o.set_focus)
            ELSE m
      [] id = "hide_overlay" ->
            IF "overlay" \in has THEN os_hide(m, "overlay", o.hide) ELSE m
      [] id = "start_session" -> emit(m, "tray_action", "start_session", o.emit)
      [] id = "stop_session" -> emit(m, "tray_action", "stop_session", o.emit)
      [] id = "open_dashboard" ->
            IF "main" \in has
            THEN os_set_focus(os_show(m, "main", o.show), "main", o.set_focus)
            ELSE m
      [] id = "feedback" ->
            open_that(emit(m, "tray_action", "feedback", o.emit), FeedbackUrl, o.open)
      [] id = "quit" -> app_exit(m, 0)
      [] OTHER -> m

\* the tray handler showing the overlay on every left click
on_tray_icon_event_show(m, has, event, o) ==
    IF event.kind = "Click" /\ event.button = "Left" /\ "overlay" \in has
    THEN os_set_focus(os_show(os_is_visible(m, "overlay", o.is_visible), "overlay", o.show),
                      "overlay", o.set_focus)
    ELSE m

\* event is [kind, button]; button is "" for the events that carry none
on_tray_icon_event(m, has, event, o) ==
    IF event.kind = "Click"
    THEN IF event.button = "Left"
         THEN IF "overlay" \in has
              THEN LET q == os_is_visible(m, "overlay", o.is_visible)
                       is_visible == IF o.is_visible THEN m.overlay.visible ELSE FALSE
                   IN  IF is_visible
                       THEN os_hide(q, "overlay", o.hide)
                       ELSE os_set_focus(os_show(q, "overlay", o.show),
                                         "overlay", o.set_focus)
              ELSE m
         ELSE m
    ELSE m

(***************************************************************************)
(* The state machine.                                                      *)
(***************************************************************************)
Machine ==
    [overlay |-> overlay, mainVisible |-> mainVisible, focus |-> focus,
     exitCode |-> exitCode, calls |-> <<>>]

Snapshot == [overlay |-> overlay, mainVisible |-> mainVisible, focus |-> focus]

\* the OS calls whose failure a handler sees, and their outcomes in one pass:
\* the calls in F may fail, every other call succeeds
OsCalls == {"is_visible", "hide", "show", "set_focus", "set_size", "outer_size",
            "set_position", "set_always_on_top", "emit", "open"}
Outcomes(F) == { [c \in OsCalls |-> c \notin failing] : failing \in SUBSET F }
Monitors == {"some", "none", "err"}

InitWith(P, W, S, D) ==
    /\ platform \in P
    /\ windows \in W
    /\ screen \in S
    /\ deco \in D
    /\ phase = "boot"
    /\ registered = {}
    /\ \E v \in BOOLEAN :
          /\ ("overlay" \notin windows => ~v)
          /\ overlay = [visible |-> v, x |-> ConfigPos[1], y |-> ConfigPos[2],
                        w |-> ConfigSize[1], h |-> ConfigSize[2], aot |-> FALSE]
    /\ mainVisible \in BOOLEAN
    /\ ("main" \notin windows => ~mainVisible)
    /\ focus = "none"
    /\ exitCode = -1
    /\ last = [name |-> "init", arg |-> <<>>, ret |-> NoResult]
    /\ calls = <<>>
    /\ pre = Snapshot
    /\ prev = [name |-> "", ret |-> NoResult, was |-> FALSE]

\* the whole shell on one monitor, each window present or absent
Init == InitWith({"macos"}, SUBSET {"overlay", "main"}, {ScreenTable[1]}, {0})

\* one handling pass named name with argument arg ended on machine m with result ret
Commit(name, arg, m, ret) ==
    /\ overlay' = m.overlay
    /\ mainVisible' = m.mainVisible
    /\ focus' = m.focus
    /\ exitCode' = m.exitCode
    /\ calls' = m.calls
    /\ last' = [name |-> name, arg |-> arg, ret |-> ret]
    /\ pre' = Snapshot
    /\ prev' = IF last.name = "toggle_overlay" /\ last.ret \in {OkBool(TRUE), OkBool(FALSE)}
               THEN [name |-> last.name, ret |-> last.ret, was |-> pre.overlay.visible]
               ELSE [name |-> "", ret |-> NoResult, was |-> FALSE]
    /\ UNCHANGED <<platform, windows, screen, deco>>

\* lib.rs, the setup closure: setup_tray, setup_shortcuts, setup_windows in turn;
\* an error of one aborts startup
SetupTray ==
    /\ phase = "boot"
    /\ \E ok \in BOOLEAN :
          /\ phase' = IF ok THEN "tray" ELSE "aborted"
          /\ Commit("setup_tray", <<>>, Machine, IF ok THEN OkUnit ELSE ErrOs)
    /\ UNCHANGED registered

SetupShortcuts ==
    /\ phase = "tray"
    /\ \E ok \in BOOLEAN :
          /\ phase' = IF ok THEN "shortcuts" ELSE "aborted"
          /\ registered' = IF ok THEN { ShortcutDefs[i] : i \in 1..Len(ShortcutDefs) } ELSE {}
          /\ Commit("setup_shortcuts", <<>>, Machine, IF ok THEN OkUnit ELSE ErrOs)

SetupWindows ==
    /\ phase = "shortcuts"
    /\ \E mon \in Monitors, o \in Outcomes({"set_size", "set_position", "set_always_on_top"}) :
          LET r == setup_windows(Machine, windows, screen, mon, o)
          IN  /\ phase' = IF r.ret = OkUnit THEN "running" ELSE "aborted"
              /\ Commit("setup_windows", <<>>, r.m, r.ret)
    /\ UNCHANGED registered

\* the remote operations, invoked by the UI layer
ToggleOverlay ==
    /\ phase = "running"
    /\ \E o \in Outcomes({"is_visible", "hide", "show", "set_focus"}) :
          LET r == toggle_overlay(Machine, windows, o)
          IN  Commit("toggle_overlay", <<>>, r.m, r.ret)
    /\ UNCHANGED <<phase, registered>>

SetOverlayExpanded ==
    /\ phase = "running"
    /\ \E expanded \in BOOLEAN, o \in Outcomes({"set_size", "emit"}) :
          LET r == set_overlay_expanded(Machine, windows, expanded, o)
          IN  Commit("set_overlay_expanded", <<BoolPayload(expanded)>>, r.m, r.ret)
    /\ UNCHANGED <<phase, registered>>

MoveOverlay ==
    /\ phase = "running"
    /\ \E position \in OverlayPosition, mon \in Monitors,
          o \in Outcomes({"outer_size", "set_position"}) :
          LET r == move_overlay(Machine, windows, screen, deco, position, mon, o)
          IN  Commit("move_overlay", <<position>>, r.m, r.ret)
    /\ UNCHANGED <<phase, registered>>

ShowMainWindow ==
    /\ phase = "running"
    /\ \E o \in Outcomes({"show", "set_focus"}) :
          LET r == show_main_window(Machine, windows, o)
          IN  Commit("show_main_window", <<>>, r.m, r.ret)
    /\ UNCHANGED <<phase, registered>>

GetShortcuts ==
    /\ phase = "running"
    /\ Commit("get_shortcuts", <<>>, Machine, OkUnit)
    /\ UNCHANGED <<phase, registered>>

\* the OS calls a pass of the shortcut closure can reach
HotkeyCalls(action, state) ==
    IF state # "Pressed" THEN {}
    ELSE IF action = "toggle_overlay"
    THEN {"emit", "is_visible", "hide", "show", "set_focus"}
    ELSE {"emit"}

\* a global shortcut event: only registered chords are delivered
Hotkey ==
    /\ phase = "running"
    /\ \E s \in registered, state \in {"Pressed", "Released"} :
          \E o \in Outcomes(HotkeyCalls(s.action, state)) :
             Commit("hotkey", <<s.action, state>>,
                    on_shortcut(Machine, windows, Chord(s), state, o), NoResult)
    /\ UNCHANGED <<phase, registered>>

\* the OS calls the branch of a menu item can reach
MenuCalls(id) ==
    CASE id \in {"show_overlay", "open_dashboard"} -> {"show", "set_focus"}
      [] id = "hide_overlay" -> {"hide"}
      [] id \in {"start_session", "stop_session"} -> {"emit"}
      [] id = "feedback" -> {"emit", "open"}
      [] OTHER -> {}

MenuClick ==
    /\ phase = "running"
    /\ \E id \in MenuIds \cup {"other"} :
          \E o \in Outcomes(MenuCalls(id)) :
             LET m == on_menu_event(Machine, windows, id, o)
             IN  /\ phase' = IF m.exitCode # -1 THEN "exited" ELSE phase
                 /\ Commit("menu", <<id>>, m, NoResult)
    /\ UNCHANGED registered

TrayEvents ==
    { [kind |-> "Click", button |-> b] : b \in {"Left", "Right", "Middle"} }
    \cup { [kind |-> k, button |-> ""] : k \in {"DoubleClick", "Enter", "Move", "Leave"} }

TrayCalls(event) ==
    IF event.kind = "Click" /\ event.button = "Left"
    THEN {"is_visible", "hide", "show", "set_focus"}
    ELSE {}

TrayIconEvent ==
    /\ phase = "running"
    /\ \E event \in TrayEvents :
          \E o \in Outcomes(TrayCalls(event)) :
             Commit("tray", <<event.kind, event.button>>,
                    on_tray_icon_event(Machine, windows, event, o), NoResult)
    /\ UNCHANGED <<phase, registered>>

Next ==
    \/ SetupTray
    \/ SetupShortcuts
    \/ SetupWindows
    \/ ToggleOverlay
    \/ SetOverlayExpanded
    \/ MoveOverlay
    \/ ShowMainWindow
    \/ GetShortcuts
    \/ Hotkey
    \/ MenuClick
    \/ TrayIconEvent

Spec == Init /\ [][Next]_vars

\* the shell without the geometry operations, on every platform
InitShell == InitWith(Platforms, SUBSET {"overlay", "main"}, {ScreenTable[1]}, {0})

NextShell ==
    \/ SetupTray
    \/ SetupShortcuts
    \/ SetupWindows
    \/ ToggleOverlay
    \/ ShowMainWindow
    \/ GetShortcuts
    \/ Hotkey
    \/ MenuClick
    \/ TrayIconEvent

SpecShell == InitShell /\ [][NextShell]_vars

\* the geometry of the overlay, over the monitors and decorations
InitGeom ==
    InitWith({"macos"}, {{"overlay", "main"}, {"main"}}, ScreenSizes, Decorations)

NextGeom ==
    \/ SetupTray
    \/ SetupShortcuts
    \/ SetupWindows
    \/ SetOverlayExpanded
    \/ MoveOverlay

SpecGeom == InitGeom /\ [][NextGeom]_vars

\* the whole shell with a window missing from the configuration
InitAbsent == InitWith({"macos"}, {{}, {"main"}, {"overlay"}}, {ScreenTable[1]}, {0})

SpecAbsent == InitAbsent /\ [][Next]_vars

(***************************************************************************)
(* Vocabulary of the properties.                                           *)
(***************************************************************************)
AllOk(cs) == \A i \in 1..Len(cs) : cs[i].ok
CallNames(cs) == [i \in 1..Len(cs) |-> cs[i].call]
IsEmit(c, event, payload) == c.win = "app" /\ c.call = "emit" /\ c.arg = <<event, payload>>
NumEmits(cs) == Cardinality({ i \in 1..Len(cs) : cs[i].call = "emit" })
Failed(cs, call) == \E i \in 1..Len(cs) : cs[i].call = call /\ ~cs[i].ok
OverlayCallsOk(cs) == \A i \in 1..Len(cs) : cs[i].win = "overlay" => cs[i].ok
Pass(name, arg) == last.name = name /\ last.arg = arg
NothingChanged == Snapshot = pre /\ exitCode = -1 /\ phase = "running"

(***************************************************************************)
(* C1.  With the overlay window present and every OS call succeeding, one  *)
(* toggle_overlay call returns the negation of the visibility it began     *)
(* with and leaves the overlay with that negated visibility; a second      *)
(* consecutive call returns the original visibility and leaves the overlay *)
(* at the original visibility.                                             *)
(***************************************************************************)
C1_ToggleInvolutive ==
    (last.name = "toggle_overlay" /\ "overlay" \in windows /\ AllOk(calls)) =>
        /\ last.ret = (IF pre.overlay.visible THEN "Ok(false)" ELSE "Ok(true)")
        /\ overlay.visible = ~pre.overlay.visible
        /\ (prev.name = "toggle_overlay" =>
               /\ prev.ret = (IF prev.was THEN "Ok(false)" ELSE "Ok(true)")
               /\ pre.overlay.visible = ~prev.was
               /\ last.ret = (IF prev.was THEN "Ok(true)" ELSE "Ok(false)")
               /\ overlay.visible = prev.was)

\* two consecutive successful toggles from a visible overlay
C1_Witness ==
    /\ last.name = "toggle_overlay" /\ "overlay" \in windows /\ AllOk(calls)
    /\ prev.name = "toggle_overlay" /\ prev.was
    /\ overlay.visible

C2_Half(n) == IF n >= 0 THEN n \div 2 ELSE -((-n) \div 2)

(***************************************************************************)
(* C2.  A move_overlay call that returns Ok has set the overlay's top-left *)
(* position to: x = 20 (left), (screenWidth - windowWidth) / 2 (center,    *)
(* the i32 division, which truncates toward zero) or screenWidth -         *)
(* windowWidth - 20 (right); y = 80 (top) or screenHeight - windowHeight - *)
(* 20 (bottom), windowWidth x windowHeight being the overlay's outer size. *)
(* Screen 1920x1080 and window 420x400 give TopRight = (1480, 80) and      *)
(* BottomLeft = (20, 660).                                                 *)
(***************************************************************************)
C2_MoveOverlayFormula ==
    (last.name = "move_overlay" /\ last.ret = "Ok") =>
        LET a == last.arg[1]
            screenWidth == screen[1]
            screenHeight == screen[2]
            windowWidth == pre.overlay.w + deco
            windowHeight == pre.overlay.h + deco
            x == CASE a \in {"TopLeft", "BottomLeft"} -> 20
                   [] a \in {"TopCenter", "BottomCenter"} -> C2_Half(screenWidth - windowWidth)
                   [] a \in {"TopRight", "BottomRight"} -> screenWidth - windowWidth - 20
            y == IF a \in {"TopLeft", "TopCenter", "TopRight"}
                 THEN 20 + 60
                 ELSE screenHeight - windowHeight - 20
        IN  /\ overlay.x = x
            /\ overlay.y = y
            /\ (screen = <<1920, 1080>> /\ windowWidth = 420 /\ windowHeight = 400) =>
                  /\ (a = "TopRight" => <<overlay.x, overlay.y>> = <<1480, 80>>)
                  /\ (a = "BottomLeft" => <<overlay.x, overlay.y>> = <<20, 660>>)

\* the example of the claim: 1920x1080, the expanded overlay, TopRight
C2_Witness ==
    /\ Pass("move_overlay", <<"TopRight">>) /\ last.ret = "Ok"
    /\ screen = <<1920, 1080>> /\ deco = 0
    /\ pre.overlay.w = 420 /\ pre.overlay.h = 400
    /\ overlay.x = 1480 /\ overlay.y = 80

(***************************************************************************)
(* C3.  A set_overlay_expanded call whose resize succeeded leaves the      *)
(* overlay size at exactly 420x400 (expanded = true) or 420x100 (expanded  *)
(* = false); no set_overlay_expanded call changes the overlay's position   *)
(* or visibility, and no move_overlay call changes its size.  So after     *)
(* set_overlay_expanded(true), any moves and set_overlay_expanded(false)   *)
(* the size is 420x100 and the position is the one the last move set.      *)
(***************************************************************************)
C3_ExpandedSizeExact ==
    /\ (last.name = "set_overlay_expanded" /\ "overlay" \in windows) =>
          /\ (Len(calls) >= 1 /\ calls[1].call = "set_size" /\ calls[1].ok) =>
                /\ overlay.w = 420
                /\ overlay.h = (IF last.arg = <<"true">> THEN 400 ELSE 100)
          /\ last.ret = "Ok" => (Len(calls) >= 1 /\ calls[1].call = "set_size" /\ calls[1].ok)
          /\ overlay.x = pre.overlay.x /\ overlay.y = pre.overlay.y
          /\ overlay.visible = pre.overlay.visible
    /\ last.name = "move_overlay" =>
          /\ overlay.w = pre.overlay.w /\ overlay.h = pre.overlay.h

\* collapsing an expanded overlay that an earlier move_overlay(BottomRight) placed
C3_Witness ==
    /\ Pass("set_overlay_expanded", <<"false">>) /\ last.ret = "Ok"
    /\ pre.overlay.w = 420 /\ pre.overlay.h = 400
    /\ overlay.w = 420 /\ overlay.h = 100
    /\ overlay.x = screen[1] - (420 + deco) - 20
    /\ overlay.y = screen[2] - (400 + deco) - 20

(***************************************************************************)
(* C4.  A remote operation whose window does not exist returns its         *)
(* not-found error and has no effect: toggle_overlay, set_overlay_expanded *)
(* and move_overlay return "Overlay window not found" without the overlay, *)
(* show_main_window returns "Main window not found" without the main       *)
(* window; no OS call is made, no event is emitted, no window attribute    *)
(* changes and the process keeps running.                                  *)
(***************************************************************************)
C4_NotFoundNoEffect ==
    /\ (last.name \in {"toggle_overlay", "set_overlay_expanded", "move_overlay"}
        /\ "overlay" \notin windows) =>
          /\ last.ret = "Err(Overlay window not found)"
          /\ calls = <<>>
          /\ NothingChanged
    /\ (last.name = "show_main_window" /\ "main" \notin windows) =>
          /\ last.ret = "Err(Main window not found)"
          /\ calls = <<>>
          /\ NothingChanged

\* set_overlay_expanded was called without an overlay window
C4_Witness ==
    /\ last.name = "set_overlay_expanded" /\ "overlay" \notin windows
    /\ last.ret = "Err(Overlay window not found)"

(***************************************************************************)
(* C5.  As stated: a Pressed event of the toggle_overlay chord first emits *)
(* one `shortcut` event with payload `toggle_overlay` and then flips the   *)
(* overlay's visibility (hide if visible, show and focus if hidden).       *)
(* Stated for an overlay window that exists.                               *)
(***************************************************************************)
C5_AsStated ==
    (Pass("hotkey", <<"toggle_overlay", "Pressed">>) /\ "overlay" \in windows) =>
        /\ Len(calls) >= 1 /\ IsEmit(calls[1], "shortcut", "toggle_overlay")
        /\ NumEmits(calls) = 1
        /\ overlay.visible = ~pre.overlay.visible
        /\ (~pre.overlay.visible => focus = "overlay")

(***************************************************************************)
(* C5, amended.  A Pressed event of the toggle_overlay chord first makes   *)
(* exactly one emission of `shortcut` with payload `toggle_overlay` and    *)
(* then, whether or not the emission succeeded, runs the direct toggle:    *)
(* when the overlay window exists and its visibility query and             *)
(* hide/show/focus calls succeed, the overlay's visibility is flipped      *)
(* (hidden if it was visible, visible and focused if it was hidden); when  *)
(* the overlay is absent no window state changes.  A Pressed event of one  *)
(* of the other three chords makes exactly one emission of `shortcut` with *)
(* that chord's action name and changes no window state; a Released event  *)
(* emits nothing and changes nothing.                                      *)
(***************************************************************************)
C5_HotkeyPass ==
    last.name = "hotkey" =>
        /\ Pass("hotkey", <<"toggle_overlay", "Pressed">>) =>
              /\ Len(calls) >= 1 /\ IsEmit(calls[1], "shortcut", "toggle_overlay")
              /\ NumEmits(calls) = 1
              /\ "overlay" \in windows =>
                    /\ Len(calls) >= 2 /\ calls[2].call = "is_visible"
                    /\ OverlayCallsOk(calls) =>
                          /\ overlay.visible = ~pre.overlay.visible
                          /\ CallNames(calls) =
                                (IF pre.overlay.visible
                                 THEN <<"emit", "is_visible", "hide">>
                                 ELSE <<"emit", "is_visible", "show", "set_focus">>)
                          /\ (~pre.overlay.visible => focus = "overlay")
              /\ "overlay" \notin windows => (Len(calls) = 1 /\ NothingChanged)
        /\ \A a \in {"trigger_assist", "toggle_session", "clear_context"} :
              Pass("hotkey", <<a, "Pressed">>) =>
                 /\ Len(calls) = 1 /\ IsEmit(calls[1], "shortcut", a)
                 /\ NothingChanged
        /\ last.arg[2] = "Released" => (calls = <<>> /\ NothingChanged)

\* the emission failed and the visible overlay was hidden all the same
C5_Witness ==
    /\ Pass("hotkey", <<"toggle_overlay", "Pressed">>) /\ "overlay" \in windows
    /\ ~calls[1].ok /\ OverlayCallsOk(calls)
    /\ pre.overlay.visible /\ ~overlay.visible

\* Cmd is Modifiers::META on macOS; Ctrl is Modifiers::CONTROL
PrimaryModifier(os) == IF os = "macos" THEN "META" ELSE "CONTROL"

\* the chord a key label of get_shortcuts names
LabelChord(keys) ==
    CASE keys = "{cmd}\\" -> [mods |-> {"META"}, code |-> "Backslash"]
      [] keys = "{cmd}{return}" -> [mods |-> {"META"}, code |-> "Enter"]
      [] keys = "{cmd}{shift}S" -> [mods |-> {"META", "SHIFT"}, code |-> "KeyS"]
      [] keys = "{cmd}R" -> [mods |-> {"META"}, code |-> "KeyR"]
      [] keys = "Ctrl+\\" -> [mods |-> {"CONTROL"}, code |-> "Backslash"]
      [] keys = "Ctrl+Enter" -> [mods |-> {"CONTROL"}, code |-> "Enter"]
      [] keys = "Ctrl+Shift+S" -> [mods |-> {"CONTROL", "SHIFT"}, code |-> "KeyS"]
      [] keys = "Ctrl+R" -> [mods |-> {"CONTROL"}, code |-> "KeyR"]

KeysOf(os, id) ==
    LET list == get_shortcuts(os)
    IN  list[CHOOSE i \in 1..Len(list) : list[i].id = id].keys

(***************************************************************************)
(* C6.  On every platform each chord is registered with the platform's     *)
(* primary modifier (Cmd on macOS, Ctrl elsewhere), so the registered      *)
(* chord of an action id is the chord its get_shortcuts key label names.   *)
(***************************************************************************)
C6_ChordsMatchLabels ==
    \A s \in registered :
        /\ PrimaryModifier(platform) \in s.mods
        /\ Chord(s) = LabelChord(KeysOf(platform, s.action))

C7_OutcomeOf(cs) == [c \in OsCalls |-> ~Failed(cs, c)]

C7_PreMachine ==
    [overlay |-> pre.overlay, mainVisible |-> pre.mainVisible, focus |-> pre.focus,
     exitCode |-> -1, calls |-> <<>>]

C7_ToggleChord == Chord(CHOOSE s \in registered : s.action = "toggle_overlay")

C8_AsStated ==
    /\ (Pass("menu", <<"show_overlay">>) /\ "overlay" \in windows) =>
          (overlay.visible /\ focus = "overlay")
    /\ (Pass("menu", <<"hide_overlay">>) /\ "overlay" \in windows) => ~overlay.visible
    /\ (Pass("menu", <<"open_dashboard">>) /\ "main" \in windows) =>
          (mainVisible /\ focus = "main")

C8_OverlayGeometryKept ==
    /\ overlay.x = pre.overlay.x /\ overlay.y = pre.overlay.y
    /\ overlay.w = pre.overlay.w /\ overlay.h = pre.overlay.h
    /\ overlay.aot = pre.overlay.aot

(***************************************************************************)
(* C8, amended.  The menu handler performs the effect of the clicked item  *)
(* and no other.  `show_overlay` calls show and set_focus on the overlay   *)
(* and, when both succeed, leaves it visible and focused; `hide_overlay`   *)
(* calls hide and, when it succeeds, leaves the overlay hidden;            *)
(* `start_session` and `stop_session` each make one emission of            *)
(* `tray_action` with that payload and change no window state; `feedback`  *)
(* makes one emission of `tray_action` with payload `feedback` and then    *)
(* opens the feedback URL; `open_dashboard` calls show and set_focus on    *)
(* the main window, leaving it visible and focused when both succeed, and  *)
(* makes no call on the overlay; `quit` ends the process with exit code 0; *)
(* any other id has no effect.  A click whose target window is missing     *)
(* makes no call and changes nothing.  Only `quit` ends the process.       *)
(***************************************************************************)
C8_MenuExactEffect ==
    last.name = "menu" =>
        /\ C8_OverlayGeometryKept
        /\ Pass("menu", <<"show_overlay">>) =>
              /\ mainVisible = pre.mainVisible
              /\ "overlay" \in windows =>
                    /\ CallNames(calls) = <<"show", "set_focus">>
                    /\ \A i \in 1..2 : calls[i].win = "overlay"
                    /\ AllOk(calls) => (overlay.visible /\ focus = "overlay")
              /\ "overlay" \notin windows => (calls = <<>> /\ NothingChanged)
        /\ Pass("menu", <<"hide_overlay">>) =>
              /\ mainVisible = pre.mainVisible
              /\ "overlay" \in windows =>
                    /\ CallNames(calls) = <<"hide">> /\ calls[1].win = "overlay"
                    /\ AllOk(calls) => ~overlay.visible
              /\ "overlay" \notin windows => (calls = <<>> /\ NothingChanged)
        /\ \A a \in {"start_session", "stop_session"} :
              Pass("menu", <<a>>) =>
                 /\ Len(calls) = 1 /\ IsEmit(calls[1], "tray_action", a)
                 /\ NothingChanged
        /\ Pass("menu", <<"feedback">>) =>
              /\ Len(calls) = 2 /\ IsEmit(calls[1], "tray_action", "feedback")
              /\ calls[2].call = "open"
              /\ calls[2].arg = <<"https://queenmama.featurebase.app">>
              /\ NothingChanged
        /\ Pass("menu", <<"open_dashboard">>) =>
              /\ overlay = pre.overlay
              /\ \A i \in 1..Len(calls) : calls[i].win = "main"
              /\ "main" \in windows =>
                    /\ CallNames(calls) = <<"show", "set_focus">>
                    /\ AllOk(calls) => (mainVisible /\ focus = "main")
              /\ "main" \notin windows => (calls = <<>> /\ NothingChanged)
        /\ Pass("menu", <<"quit">>) =>
              /\ phase = "exited" /\ exitCode = 0
              /\ Snapshot = pre
        /\ Pass("menu", <<"other">>) => (calls = <<>> /\ NothingChanged)
        /\ last.arg # <<"quit">> => (phase = "running" /\ exitCode = -1)

\* stop_session was clicked and forwarded
C8_Witness ==
    /\ Pass("menu", <<"stop_session">>)
    /\ Len(calls) = 1 /\ IsEmit(calls[1], "tray_action", "stop_session") /\ calls[1].ok

C9_MonitorResolved ==
    \E i \in 1..Len(calls) : calls[i].call = "current_monitor" /\ calls[i].arg = <<"some">>

(***************************************************************************)
(* C9.  As stated: after setup_windows with the overlay present and a      *)
(* monitor resolvable, the overlay has size exactly 420x100, position      *)
(* exactly (screenWidth - 420 - 20, 100) and the always-on-top flag set.   *)
(***************************************************************************)
C9_AsStated ==
    (last.name = "setup_windows" /\ "overlay" \in windows /\ C9_MonitorResolved) =>
        /\ overlay.w = 420 /\ overlay.h = 100
        /\ overlay.x = screen[1] - 420 - 20 /\ overlay.y = 100
        /\ overlay.aot

(***************************************************************************)
(* C9, amended.  After setup_windows with the overlay present, a monitor   *)
(* of width screenWidth resolvable and the set_size, set_position and      *)
(* set_always_on_top calls succeeding, the overlay has size exactly        *)
(* 420x100, position exactly (screenWidth - 420 - 20, 100) and the         *)
(* always-on-top flag set; its visibility is unchanged in every case.      *)
(* That position differs from the one move_overlay(TopRight) computes for  *)
(* the same screen and window (y = 100 against y = 80).  Whether or not    *)
(* the overlay exists or a monitor is resolvable, setup_windows returns Ok *)
(* and startup is not aborted.                                             *)
(***************************************************************************)
C9_StartupPlacement ==
    last.name = "setup_windows" =>
        /\ last.ret = "Ok" /\ phase = "running"
        /\ overlay.visible = pre.overlay.visible
        /\ mainVisible = pre.mainVisible /\ focus = pre.focus
        /\ ("overlay" \in windows /\ C9_MonitorResolved /\ AllOk(calls)) =>
              /\ overlay.w = 420 /\ overlay.h = 100
              /\ overlay.x = screen[1] - 420 - 20 /\ overlay.y = 100
              /\ overlay.aot
              /\ LET anchor == AnchorPosition("TopRight", screen, OuterSize(Machine, deco))
                 IN  /\ anchor[2] = 80
                     /\ <<overlay.x, overlay.y>> # anchor
        /\ "overlay" \notin windows => (calls = <<>> /\ Snapshot = pre)

\* setup placed the overlay on a resolved monitor
C9_Witness ==
    /\ last.name = "setup_windows" /\ "overlay" \in windows
    /\ C9_MonitorResolved /\ AllOk(calls)
    /\ overlay.y = 100 /\ overlay.w = 420 /\ overlay.aot

C10_HandlerPass ==
    \/ Pass("hotkey", <<"toggle_overlay", "Pressed">>)
    \/ Pass("tray", <<"Click", "Left">>)

C10_OverlayCalls == SelectSeq(calls, LAMBDA c : c.win = "overlay")

(***************************************************************************)
(* C10.  When the visibility query fails, the toggle hotkey handler and    *)
(* the tray left-click handler read the overlay as hidden: they call show  *)
(* and set_focus (never hide) and ignore the outcome of each, so the       *)
(* overlay ends visible when show succeeds; the remote toggle_overlay      *)
(* returns an error, makes no hide, show or set_focus call and leaves the  *)
(* window state unchanged.  When the query and the hide/show/focus calls   *)
(* succeed, the three paths all leave the overlay with the negated         *)
(* visibility.                                                             *)
(***************************************************************************)
C10_TogglePathsOnFailure ==
    "overlay" \in windows =>
        /\ (C10_HandlerPass /\ Failed(calls, "is_visible")) =>
              /\ CallNames(C10_OverlayCalls) = <<"is_visible", "show", "set_focus">>
              /\ ~Failed(calls, "show") => overlay.visible
              /\ (~Failed(calls, "show") /\ ~Failed(calls, "set_focus")) => focus = "overlay"
              /\ Failed(calls, "show") => overlay.visible = pre.overlay.visible
        /\ (C10_HandlerPass /\ ~Failed(calls, "is_visible")) =>
              /\ CallNames(C10_OverlayCalls) =
                    (IF pre.overlay.visible
                     THEN <<"is_visible", "hide">>
                     ELSE <<"is_visible", "show", "set_focus">>)
        /\ (last.name = "toggle_overlay" /\ Failed(calls, "is_visible")) =>
              /\ last.ret \notin {"Ok(true)", "Ok(false)"}
              /\ last.ret = "Err(os)"
              /\ CallNames(calls) = <<"is_visible">>
              /\ Snapshot = pre
        /\ ((C10_HandlerPass \/ last.name = "toggle_overlay") /\ OverlayCallsOk(calls)) =>
              overlay.visible = ~pre.overlay.visible

\* the hotkey showed a visible overlay again because the query failed
C10_Witness ==
    /\ Pass("hotkey", <<"toggle_overlay", "Pressed">>) /\ "overlay" \in windows
    /\ Failed(calls, "is_visible") /\ ~Failed(calls, "show")
    /\ pre.overlay.visible /\ overlay.visible

====
